---------------------------- MODULE Spec2Model ----------------------------
(***************************************************************************)
(* A model of django_nextjs/render.py: the marker extractor, the cookie    *)
(* and header adapters, and the blocking and non-blocking render           *)
(* operations, each run as a small process against one inbound request,    *)
(* one remote renderer and one template engine.                            *)
(*                                                                         *)
(* Text is a sequence of one-character strings, positions are Python's     *)
(* (0-based), a dict is a function whose domain is its key set, and an     *)
(* optional value is a record [some, d].                                   *)
(***************************************************************************)
EXTENDS Integers, Sequences, FiniteSets, TLC

VARIABLES
    request,         \* the inbound HttpRequest
    template_name,   \* argument template_name
    context,         \* argument context as the caller passed it
    using,           \* argument using
    content_type,    \* argument content_type of render_nextjs_page_*
    status,          \* argument status of render_nextjs_page_*
    remote,          \* what the Next.js server does with the GET
    engine,          \* what the template engine does with render_to_string
    csrf_token,      \* what get_csrf_token(request) returns
    pc,              \* position of each call, by the variant called
    log,             \* the external operations each call has performed, in order
    sent,            \* the outbound requests each call has issued, in order
    html,            \* local html of each call
    caller_context,  \* the caller's context object as each call leaves it
    final_context,   \* local final_context of each call
    result,          \* outcome of render_nextjs_page_to_string_*
    response         \* outcome of render_nextjs_page_*

vars == <<request, template_name, context, using, content_type, status, remote,
          engine, csrf_token, pc, log, sent, html, caller_context,
          final_context, result, response>>

inputs == <<request, template_name, context, using, content_type, status,
            remote, engine, csrf_token>>

---------------------------------------------------------------------------
(* Bounds of the model                                                     *)

\* the remote renderer's body is at most this many pieces long
MaxPieces == 5
\* the inbound query string has at most this many key=value pairs
MaxParams == 3

---------------------------------------------------------------------------
(* Text                                                                    *)

Min(S) == CHOOSE x \in S : \A y \in S : x <= y

\* Python's h[lo:hi] for 0 <= lo and 0 <= hi <= len(h): empty when hi <= lo
Slice(h, lo, hi) == SubSeq(h, lo + 1, hi)

\* Python's h[lo:]
SliceFrom(h, lo) == SubSeq(h, lo + 1, Len(h))

\* whether sub occurs in h at 0-based position i
OccursAt(h, sub, i) ==
    /\ i >= 0
    /\ i + Len(sub) <= Len(h)
    /\ \A j \in 1..Len(sub) : h[i + j] = sub[j]

\* a plausible slip: the start argument is ignored and the scan begins at 0
FindFromZero(h, sub, start) ==
    LET hits == {i \in 0..(Len(h) - Len(sub)) : OccursAt(h, sub, i)}
    IN  IF hits = {} THEN -1 ELSE Min(hits)

\* Python's h.find(sub, start): the lowest position >= start, or -1
Find(h, sub, start) ==
    LET hits == {i \in start..(Len(h) - Len(sub)) : OccursAt(h, sub, i)}
    IN  IF hits = {} THEN -1 ELSE Min(hits)

RECURSIVE Concat(_)
Concat(ss) == IF ss = <<>> THEN <<>> ELSE Head(ss) \o Concat(Tail(ss))

---------------------------------------------------------------------------
(* The markers of _get_context                                             *)

Marker1 == <<"<", "h", "e", "a", "d", ">">>
Marker2 == <<"<", "/", "h", "e", "a", "d", ">", "<", "b", "o", "d", "y", " ",
             "i", "d", "=", "\"", "_", "_", "d", "j", "a", "n", "g", "o", "_",
             "n", "e", "x", "t", "j", "s", "_", "b", "o", "d", "y", "\"">>
Marker3 == <<"<", "d", "i", "v", " ", "i", "d", "=", "\"", "_", "_", "d", "j",
             "a", "n", "g", "o", "_", "n", "e", "x", "t", "j", "s", "_", "b",
             "o", "d", "y", "_", "b", "e", "g", "i", "n", "\"">>
Marker4 == <<"<", "d", "i", "v", " ", "i", "d", "=", "\"", "_", "_", "d", "j",
             "a", "n", "g", "o", "_", "n", "e", "x", "t", "j", "s", "_", "b",
             "o", "d", "y", "_", "e", "n", "d", "\"">>

\* the substrings _get_context searches for, in the order it searches
Markers == <<Marker1, Marker2, Marker3, Marker4>>

---------------------------------------------------------------------------
(* Dicts and optional values                                               *)

EmptyDict == [k \in {} |-> <<>>]

\* Python's d.get(k, default)
Get(d, k, default) == IF k \in DOMAIN d THEN d[k] ELSE default

\* Python's x or y on strings: x when it is non-empty
StrOr(x, y) == IF x # "" THEN x ELSE y

\* Python's a | b on dicts: the keys of both, b's value where both have one
DictUnion(a, b) ==
    [k \in (DOMAIN a) \cup (DOMAIN b) |-> IF k \in DOMAIN b THEN b[k] ELSE a[k]]

\* Python's d[k] = v
DictSet(d, k, v) == [x \in (DOMAIN d) \cup {k} |-> IF x = k THEN v ELSE d[x]]

None == [some |-> FALSE, d |-> EmptyDict]
Some(d) == [some |-> TRUE, d |-> d]

\* Python's truth value of an optional dict: None and {} are false
Truthy(c) == c.some /\ DOMAIN c.d # {}

SectionKeys == {"section1", "section2", "section3", "section4", "section5"}
NoSections == [k \in {} |-> <<>>]

\* a value held in a template context: a caller's value or the five sections
CallerValue(s) == [kind |-> "value", value |-> s, sections |-> NoSections]
SectionsValue(secs) == [kind |-> "sections", value |-> "", sections |-> secs]

---------------------------------------------------------------------------
(* _get_context                                                            *)

DJANGO_NEXTJS_KEY == "django_nextjs__"

\* a plausible slip: section2 is cut from the start of <head>, not its end
GetContextSectionsFromA(h, a, b, c, d) ==
    [k \in SectionKeys |->
        CASE k = "section1" -> Slice(h, 0, a + Len(Marker1))
          [] k = "section2" -> Slice(h, a, b)
          [] k = "section3" -> Slice(h, b, c)
          [] k = "section4" -> Slice(h, c, d)
          [] k = "section5" -> SliceFrom(h, d)]

\* the dict stored under django_nextjs__, given the four positions found
GetContextSections(h, a, b, c, d) ==
    [k \in SectionKeys |->
        CASE k = "section1" -> Slice(h, 0, a + Len(Marker1))
          [] k = "section2" -> Slice(h, a + Len(Marker1), b)
          [] k = "section3" -> Slice(h, b, c)
          [] k = "section4" -> Slice(h, c, d)
          [] k = "section5" -> SliceFrom(h, d)]

\* the positions a, b, c, d as far as the scan gets: it stops at the first -1
MarkerPositions(h) ==
    LET a == Find(h, Marker1, 0)
    IN  IF a = -1 THEN <<>>
        ELSE LET b == Find(h, Marker2, a)
             IN  IF b = -1 THEN <<a>>
                 ELSE LET c == Find(h, Marker3, b)
                      IN  IF c = -1 THEN <<a, b>>
                          ELSE LET d == Find(h, Marker4, c)
                               IN  IF d = -1 THEN <<a, b, c>>
                                   ELSE <<a, b, c, d>>

\* a plausible slip: the caller's dict is copied before the key is stored
GetContextCopying(h, ctx) ==
    LET pos == MarkerPositions(h)
    IN  IF Len(pos) < Len(Markers)
        THEN [ret |-> None, caller |-> ctx]
        ELSE LET base == IF Truthy(ctx) THEN ctx.d ELSE EmptyDict
                 secs == GetContextSections(h, pos[1], pos[2], pos[3], pos[4])
             IN  [ret    |-> Some(DictSet(base, DJANGO_NEXTJS_KEY, SectionsValue(secs))),
                  caller |-> ctx]

\* _get_context(html, context): ret is the value returned, caller is the
\* caller's context object after the call (context or {} keeps a non-empty
\* dict as the same object, so the store shows in it)
GetContext(h, ctx) ==
    LET pos == MarkerPositions(h)
    IN  IF Len(pos) < Len(Markers)
        THEN [ret |-> None, caller |-> ctx]
        ELSE LET base == IF Truthy(ctx) THEN ctx.d ELSE EmptyDict
                 secs == GetContextSections(h, pos[1], pos[2], pos[3], pos[4])
                 full == DictSet(base, DJANGO_NEXTJS_KEY, SectionsValue(secs))
             IN  [ret    |-> Some(full),
                  caller |-> IF Truthy(ctx) THEN Some(full) ELSE ctx]

---------------------------------------------------------------------------
(* _get_cookies and _get_headers                                           *)

\* settings.CSRF_COOKIE_NAME
CSRF_COOKIE_NAME == "csrftoken"

\* a plausible slip: the inbound cookies are passed on as they are
GetCookiesInboundOnly(req, token) == req.COOKIES

\* _get_cookies(request), token being what get_csrf_token(request) returns
GetCookies(req, token) == DictUnion(req.COOKIES, (CSRF_COOKIE_NAME :> token))

\* a plausible slip: no fall back to REMOTE_ADDR
GetHeadersNoFallback(req) ==
    ("x-real-ip" :> Get(req.headers, "X-Real-Ip", ""))
        @@ ("user-agent" :> Get(req.headers, "User-Agent", ""))

\* _get_headers(request)
GetHeaders(req) ==
    ("x-real-ip" :> StrOr(Get(req.headers, "X-Real-Ip", ""),
                          Get(req.META, "REMOTE_ADDR", "")))
        @@ ("user-agent" :> Get(req.headers, "User-Agent", ""))

---------------------------------------------------------------------------
(* The outbound request                                                    *)

\* Python's s.lstrip("/")
RECURSIVE LstripSlash(_)
LstripSlash(s) ==
    IF s # <<>> /\ Head(s) = "/" THEN LstripSlash(Tail(s)) ELSE s

\* the characters of a modelled path that urllib's quote escapes
PercentEncoded(ch) ==
    CASE ch = " " -> <<"%", "2", "0">>
      [] ch = "%" -> <<"%", "2", "5">>
      [] OTHER    -> <<ch>>

\* requests.utils.quote(s): safe characters and "/" are kept
Quote(s) == Concat([i \in 1..Len(s) |-> PercentEncoded(s[i])])

\* page of both variants
Page(req) == Quote(LstripSlash(req.path_info))

\* .app_settings.NEXTJS_SERVER_URL, kept symbolic
NEXTJS_SERVER_URL == "NEXTJS_SERVER_URL"

\* f"{NEXTJS_SERVER_URL}/{page}"
Url(req) == [base |-> NEXTJS_SERVER_URL, path |-> <<"/">> \o Page(req)]

\* request.GET.keys(): the distinct keys, in the order they first occur
RECURSIVE QueryKeys(_)
QueryKeys(q) ==
    IF q = <<>> THEN <<>>
    ELSE LET before == QueryKeys(SubSeq(q, 1, Len(q) - 1))
             k == q[Len(q)][1]
         IN  IF \E i \in 1..Len(before) : before[i] = k
             THEN before ELSE Append(before, k)

\* request.GET.getlist(k): every value of k, in order
GetList(q, k) ==
    LET mine == SelectSeq(q, LAMBDA p : p[1] = k)
    IN  [i \in 1..Len(mine) |-> mine[i][2]]

\* a plausible slip: request.GET.get(k), the last value only
SyncParamsLastOnly(req) ==
    LET ks == QueryKeys(req.GET)
    IN  [i \in 1..Len(ks) |->
            LET vs == GetList(req.GET, ks[i]) IN <<ks[i], <<vs[Len(vs)]>> >>]

\* params of the sync variant: a dict from each key to its list of values,
\* kept as its items in insertion order
SyncParams(req) ==
    LET ks == QueryKeys(req.GET)
    IN  [i \in 1..Len(ks) |-> <<ks[i], GetList(req.GET, ks[i])>>]

\* a plausible slip: request.GET[k] in place of getlist(k), one pair per key
AsyncParamsOnePerKey(req) ==
    LET ks == QueryKeys(req.GET)
    IN  [i \in 1..Len(ks) |->
            LET vs == GetList(req.GET, ks[i]) IN <<ks[i], vs[Len(vs)]>>]

\* params of the async variant: a list of (key, value) tuples
AsyncParams(req) ==
    LET ks == QueryKeys(req.GET)
    IN  Concat([i \in 1..Len(ks) |->
            LET vs == GetList(req.GET, ks[i])
            IN  [j \in 1..Len(vs) |-> <<ks[i], vs[j]>>]])

\* what requests puts on the wire for a dict of lists: key=value once per
\* value, in the dict's order
RequestsEncode(items) ==
    Concat([i \in 1..Len(items) |->
        [j \in 1..Len(items[i][2]) |-> <<items[i][1], items[i][2][j]>>]])

\* the GET issued by render_nextjs_page_to_string_sync
SyncRequest(req, token) ==
    [method  |-> "GET",
     url     |-> Url(req),
     params  |-> RequestsEncode(SyncParams(req)),
     cookies |-> GetCookies(req, token),
     headers |-> GetHeaders(req)]

\* the GET issued by render_nextjs_page_to_string_async
AsyncRequest(req, token) ==
    [method  |-> "GET",
     url     |-> Url(req),
     params  |-> AsyncParams(req),
     cookies |-> GetCookies(req, token),
     headers |-> GetHeaders(req)]

---------------------------------------------------------------------------
(* Outcomes                                                                *)

Variants == {"sync", "async"}

NoRequest ==
    [path_info |-> <<>>, GET |-> <<>>, COOKIES |-> EmptyDict,
     headers |-> EmptyDict, META |-> EmptyDict]

\* the text render_to_string(template_name, context, request, using) gives:
\* template semantics are the engine's, so the text is named by its inputs
Rendered(tn, ctx, req, us) ==
    [template_name |-> tn, context |-> ctx, request |-> req, using |-> us]

NoRendered == Rendered("", EmptyDict, NoRequest, "")

Pending == [kind |-> "pending", html |-> <<>>, rendered |-> NoRendered, error |-> ""]
ReturnedHtml(h) == [kind |-> "html", html |-> h, rendered |-> NoRendered, error |-> ""]
ReturnedRendered(r) == [kind |-> "rendered", html |-> <<>>, rendered |-> r, error |-> ""]
Raised(e) == [kind |-> "error", html |-> <<>>, rendered |-> NoRendered, error |-> e]

NoResponse == [kind |-> "pending", content |-> Pending, content_type |-> "",
               status |-> "", error |-> ""]

\* HttpResponse(content, content_type, status)
HttpResponse(content, ct, st) ==
    [kind |-> "response", content |-> content, content_type |-> ct,
     status |-> st, error |-> ""]

ResponseRaised(e) ==
    [kind |-> "error", content |-> Pending, content_type |-> "",
     status |-> "", error |-> e]

RemoteOk(body) == [kind |-> "ok", body |-> body, error |-> ""]
RemoteFails(e) == [kind |-> "error", body |-> <<>>, error |-> e]

EngineOk == [kind |-> "ok", error |-> ""]
EngineFails(e) == [kind |-> "error", error |-> e]

\* the GET a variant issues
OutboundRequest(v, req, token) ==
    IF v = "sync" THEN SyncRequest(req, token) ELSE AsyncRequest(req, token)

---------------------------------------------------------------------------
(* render_nextjs_page_to_string_sync / _async, step by step                *)

\* a plausible slip: a failed GET is issued again
AfterFailedGetRetry == "start"

\* where a call stands after its GET raised: the error leaves the function
AfterFailedGet == "raised"

\* a plausible slip: an error of the HTTP client is swallowed and an empty
\* page returned
FetchFailureOutcomeSwallowed(e) == ReturnedHtml(<<>>)

\* the outcome of the to-string function when the GET raises e
FetchFailureOutcome(e) == Raised(e)

\* Python's truth value of template_name
TemplateRequested(tn) == tn # ""

\* a plausible slip: without markers the page is rebuilt from an empty text
UnmatchedOutcomeEmpty(h) == ReturnedHtml(<<>>)

\* the outcome when _get_context returned None: the html as fetched
UnmatchedOutcome(h) == ReturnedHtml(h)

\* requests.get(...) / session.get(...) answers: html = response.text
FetchOk(v) ==
    /\ pc[v] = "start"
    /\ remote.kind = "ok"
    /\ sent' = [sent EXCEPT ![v] = Append(@, OutboundRequest(v, request, csrf_token))]
    /\ log' = [log EXCEPT ![v] = Append(@, "GET")]
    /\ html' = [html EXCEPT ![v] = remote.body]
    /\ pc' = [pc EXCEPT ![v] = "fetched"]
    /\ UNCHANGED <<inputs, caller_context, final_context, result, response>>

\* requests.get(...) / session.get(...) raises
FetchRaises(v) ==
    /\ pc[v] = "start"
    /\ remote.kind = "error"
    /\ sent' = [sent EXCEPT ![v] = Append(@, OutboundRequest(v, request, csrf_token))]
    /\ log' = [log EXCEPT ![v] = Append(@, "GET")]
    /\ result' = [result EXCEPT ![v] = FetchFailureOutcome(remote.error)]
    /\ pc' = [pc EXCEPT ![v] = AfterFailedGet]
    /\ UNCHANGED <<inputs, html, caller_context, final_context, response>>

\* template_name is empty: return html
ReturnFetched(v) ==
    /\ pc[v] = "fetched"
    /\ ~TemplateRequested(template_name)
    /\ result' = [result EXCEPT ![v] = ReturnedHtml(html[v])]
    /\ pc' = [pc EXCEPT ![v] = "returned"]
    /\ UNCHANGED <<inputs, log, sent, html, caller_context, final_context, response>>

\* template_name is given: final_context := _get_context(html, context)
Extract(v) ==
    /\ pc[v] = "fetched"
    /\ TemplateRequested(template_name)
    /\ LET r == GetContext(html[v], caller_context[v])
       IN  /\ final_context' = [final_context EXCEPT ![v] = r.ret]
           /\ caller_context' = [caller_context EXCEPT ![v] = r.caller]
    /\ log' = [log EXCEPT ![v] = Append(@, "extract")]
    /\ pc' = [pc EXCEPT ![v] = "extracted"]
    /\ UNCHANGED <<inputs, sent, html, result, response>>

\* final_context is None: return html
ReturnUnmatched(v) ==
    /\ pc[v] = "extracted"
    /\ ~final_context[v].some
    /\ result' = [result EXCEPT ![v] = UnmatchedOutcome(html[v])]
    /\ pc' = [pc EXCEPT ![v] = "returned"]
    /\ UNCHANGED <<inputs, log, sent, html, caller_context, final_context, response>>

\* render_to_string(template_name, context=final_context, request, using)
RenderOk(v) ==
    /\ pc[v] = "extracted"
    /\ final_context[v].some
    /\ engine.kind = "ok"
    /\ log' = [log EXCEPT ![v] = Append(@, "render")]
    /\ result' = [result EXCEPT ![v] =
           ReturnedRendered(Rendered(template_name, final_context[v].d, request, using))]
    /\ pc' = [pc EXCEPT ![v] = "returned"]
    /\ UNCHANGED <<inputs, sent, html, caller_context, final_context, response>>

\* render_to_string raises
RenderRaises(v) ==
    /\ pc[v] = "extracted"
    /\ final_context[v].some
    /\ engine.kind = "error"
    /\ log' = [log EXCEPT ![v] = Append(@, "render")]
    /\ result' = [result EXCEPT ![v] = Raised(engine.error)]
    /\ pc' = [pc EXCEPT ![v] = "raised"]
    /\ UNCHANGED <<inputs, sent, html, caller_context, final_context, response>>

---------------------------------------------------------------------------
(* render_nextjs_page_sync / _async                                        *)

\* return HttpResponse(content, content_type, status)
Respond(v) ==
    /\ pc[v] = "returned"
    /\ response' = [response EXCEPT ![v] = HttpResponse(result[v], content_type, status)]
    /\ pc' = [pc EXCEPT ![v] = "responded"]
    /\ UNCHANGED <<inputs, log, sent, html, caller_context, final_context, result>>

\* the to-string call raised: the error leaves render_nextjs_page_* too
RespondRaises(v) ==
    /\ pc[v] = "raised"
    /\ response' = [response EXCEPT ![v] = ResponseRaised(result[v].error)]
    /\ pc' = [pc EXCEPT ![v] = "failed"]
    /\ UNCHANGED <<inputs, log, sent, html, caller_context, final_context, result>>

Next ==
    \E v \in DOMAIN pc :
        \/ FetchOk(v)
        \/ FetchRaises(v)
        \/ ReturnFetched(v)
        \/ Extract(v)
        \/ ReturnUnmatched(v)
        \/ RenderOk(v)
        \/ RenderRaises(v)
        \/ Respond(v)
        \/ RespondRaises(v)

---------------------------------------------------------------------------
(* Inputs                                                                  *)

\* pieces a body of the remote renderer is made of
Filler == <<"<", "p", ">">>
Pieces == {Marker1, Marker2, Marker3, Marker4, Filler}

\* every body of at most n pieces
BodiesUpTo(n) == {Concat(ps) : ps \in UNION {[1..k -> Pieces] : k \in 0..n}}

\* a page with the markers in order, and pages without
FullPage == Concat(<<Filler, Marker1, Filler, Marker2, Marker3, Filler, Marker4, Filler>>)
SwappedPage == Concat(<<Marker1, Marker2, Marker4, Marker3>>)
HeadlessPage == Concat(<<Marker2, Marker3, Marker4>>)
FewBodies == {FullPage, SwappedPage, HeadlessPage}

FetchErrors == {"ConnectionError", "Timeout"}
TemplateErrors == {"TemplateDoesNotExist", "TemplateSyntaxError"}

RemotesOver(Bodies, Errors) ==
    {RemoteOk(b) : b \in Bodies} \cup {RemoteFails(e) : e \in Errors}
EnginesOver(Errors) == {EngineOk} \cup {EngineFails(e) : e \in Errors}

\* the dicts with at most the entry name, its value drawn from Vals
OptEntry(name, Vals) == {EmptyDict} \cup {(name :> x) : x \in Vals}

Paths == {<<"/">>, <<"/", "a">>, <<"/", "/", "a", " ", "b">>}
QueryNames == {"a", "b"}
QueryValues == {"1", "2"}
QueriesUpTo(n) == UNION {[1..k -> QueryNames \X QueryValues] : k \in 0..n}

CookieJars ==
    {s @@ t @@ c : s \in OptEntry("sessionid", {"s1", "s2"}),
                   t \in OptEntry("theme", {"dark"}),
                   c \in OptEntry(CSRF_COOKIE_NAME, {"secret0"})}
HeaderDicts ==
    {x @@ u @@ l : x \in OptEntry("X-Real-Ip", {"", "203.0.113.7"}),
                   u \in OptEntry("User-Agent", {"", "Mozilla/5.0"}),
                   l \in OptEntry("Accept-Language", {"fa"})}
Metas == OptEntry("REMOTE_ADDR", {"", "10.0.0.1"})
Tokens == {"masked1", "masked2"}

RequestsOver(Ps, Qs, Cs, Hs, Ms) ==
    {[path_info |-> p, GET |-> q, COOKIES |-> c, headers |-> h, META |-> m] :
        p \in Ps, q \in Qs, c \in Cs, h \in Hs, m \in Ms}

PlainRequest ==
    [path_info |-> <<"/", "a">>, GET |-> <<>>, COOKIES |-> EmptyDict,
     headers |-> ("User-Agent" :> "Mozilla/5.0"), META |-> ("REMOTE_ADDR" :> "10.0.0.1")]

\* a request with a repeated query key, cookies and proxy headers
BusyRequest ==
    [path_info |-> <<"/", "/", "a", " ", "b">>,
     GET |-> << <<"a", "1">>, <<"b", "1">>, <<"a", "2">> >>,
     COOKIES |-> ("sessionid" :> "s1") @@ (CSRF_COOKIE_NAME :> "secret0"),
     headers |-> ("X-Real-Ip" :> "203.0.113.7") @@ ("Accept-Language" :> "fa"),
     META |-> ("REMOTE_ADDR" :> "10.0.0.1")]

TemplateNames == {"", "page.html"}
Contexts ==
    {None, Some(EmptyDict), Some(("title" :> CallerValue("T"))),
     Some((DJANGO_NEXTJS_KEY :> CallerValue("mine"))),
     Some(("title" :> CallerValue("T")) @@ (DJANGO_NEXTJS_KEY :> CallerValue("mine")))}
Usings == {"None", "jinja2"}
ContentTypes == {"None", "text/plain"}
Statuses == {"None", "404"}

\* which variants are called: one of the two, or both side by side
OneCall == {{v} : v \in Variants}

---------------------------------------------------------------------------
(* Specifications                                                          *)

InitOver(Calls, Rqs, Tns, Cxs, Uss, Cts, Sts, Rms, Ens, Tks) ==
    /\ request \in Rqs
    /\ template_name \in Tns
    /\ context \in Cxs
    /\ using \in Uss
    /\ content_type \in Cts
    /\ status \in Sts
    /\ remote \in Rms
    /\ engine \in Ens
    /\ csrf_token \in Tks
    /\ \E vs \in Calls : pc = [v \in vs |-> "start"]
    /\ log = [v \in DOMAIN pc |-> <<>>]
    /\ sent = [v \in DOMAIN pc |-> <<>>]
    /\ html = [v \in DOMAIN pc |-> <<>>]
    /\ caller_context = [v \in DOMAIN pc |-> context]
    /\ final_context = [v \in DOMAIN pc |-> None]
    /\ result = [v \in DOMAIN pc |-> Pending]
    /\ response = [v \in DOMAIN pc |-> NoResponse]

\* the orchestration: every kind of caller argument, remote and engine outcome
Init ==
    InitOver({Variants}, {PlainRequest, BusyRequest}, TemplateNames, Contexts, Usings, ContentTypes,
             Statuses, RemotesOver(FewBodies, FetchErrors), EnginesOver(TemplateErrors),
             {"masked1"})

Spec == Init /\ [][Next]_vars

\* the marker extractor: every body of at most MaxPieces pieces
InitBodies ==
    InitOver(OneCall, {PlainRequest}, TemplateNames, {None}, {"None"}, {"None"}, {"None"},
             RemotesOver(BodiesUpTo(MaxPieces), {"Timeout"}),
             EnginesOver({"TemplateSyntaxError"}), {"masked1"})

SpecBodies == InitBodies /\ [][Next]_vars

\* the query string: every query of at most MaxParams pairs
InitQueries ==
    InitOver(OneCall, RequestsOver(Paths, QueriesUpTo(MaxParams), {EmptyDict}, {EmptyDict}, {EmptyDict}),
             TemplateNames, {None}, {"None"}, {"None"}, {"None"},
             RemotesOver({FullPage, SwappedPage}, {"Timeout"}),
             EnginesOver({"TemplateSyntaxError"}), {"masked1"})

SpecQueries == InitQueries /\ [][Next]_vars

\* the cookie and header adapters: every cookie jar, header set and META
InitAdapters ==
    InitOver(OneCall, RequestsOver({<<"/">>}, {<<>>}, CookieJars, HeaderDicts, Metas),
             TemplateNames, {None}, {"None"}, {"None"}, {"None"},
             RemotesOver({FullPage, SwappedPage}, {"Timeout"}),
             EnginesOver({"TemplateSyntaxError"}), Tokens)

SpecAdapters == InitAdapters /\ [][Next]_vars

---------------------------------------------------------------------------
(* Vocabulary of the properties                                            *)

\* every position at which m occurs in h
Occurrences(h, m) == {i \in 0..(Len(h) - Len(m)) : OccursAt(h, m, i)}

\* the markers occur in h in order: each at or after the one before
MarkersInOrder(h) ==
    LET o1 == Occurrences(h, Marker1)
        o2 == Occurrences(h, Marker2)
        o3 == Occurrences(h, Marker3)
        o4 == Occurrences(h, Marker4)
    IN  \E p1 \in o1 : \E p2 \in o2 : \E p3 \in o3 : \E p4 \in o4 :
            p1 <= p2 /\ p2 <= p3 /\ p3 <= p4

\* section1 + section2 + section3 + section4 + section5
JoinSections(secs) ==
    secs["section1"] \o secs["section2"] \o secs["section3"]
        \o secs["section4"] \o secs["section5"]

StartsWith(t, m) == Len(t) >= Len(m) /\ SubSeq(t, 1, Len(m)) = m
EndsWith(t, m) == Len(t) >= Len(m) /\ SubSeq(t, Len(t) - Len(m) + 1, Len(t)) = m

\* the call has run _get_context
Extracted(v) == \E i \in 1..Len(log[v]) : log[v][i] = "extract"

\* the call has run render_to_string
RenderCalled(v) == \E i \in 1..Len(log[v]) : log[v][i] = "render"

\* the values a list of (key, value) pairs holds for k, in order
RECURSIVE ValuesFor(_, _)
ValuesFor(pairs, k) ==
    IF pairs = <<>> THEN <<>>
    ELSE IF Head(pairs)[1] = k
         THEN <<Head(pairs)[2]>> \o ValuesFor(Tail(pairs), k)
         ELSE ValuesFor(Tail(pairs), k)

NamesIn(pairs) == {pairs[i][1] : i \in 1..Len(pairs)}

---------------------------------------------------------------------------
(* C1                                                                      *)

\* C1 as stated: when all the markers occur in order, the mapping
\* _get_context returns has exactly the five keys section1..section5 and the
\* five values joined give back the HTML.
C1_ReturnsFiveKeys ==
    \A v \in DOMAIN pc :
        (Extracted(v) /\ MarkersInOrder(html[v])) =>
            /\ final_context[v].some
            /\ DOMAIN final_context[v].d = SectionKeys
            /\ Concat([i \in 1..5 |-> final_context[v].d[
                   <<"section1", "section2", "section3", "section4", "section5">>[i]
                   ].value]) = html[v]

\* C1 amended: when all the markers occur in order, the mapping
\* _get_context returns holds under django_nextjs__ a mapping with exactly
\* the five keys section1..section5, and section1 + ... + section5 is the
\* HTML, character for character.
C1_SectionsRebuildHtml ==
    \A v \in DOMAIN pc :
        (Extracted(v) /\ MarkersInOrder(html[v])) =>
            /\ final_context[v].some
            /\ DJANGO_NEXTJS_KEY \in DOMAIN final_context[v].d
            /\ LET held == final_context[v].d[DJANGO_NEXTJS_KEY]
               IN  /\ held.kind = "sections"
                   /\ DOMAIN held.sections = SectionKeys
                   /\ JoinSections(held.sections) = html[v]

\* a page with text between its markers has been cut
C1_Witness ==
    \E v \in DOMAIN pc :
        /\ Extracted(v)
        /\ MarkersInOrder(html[v])
        /\ final_context[v].some
        /\ final_context[v].d[DJANGO_NEXTJS_KEY].sections["section2"] # <<>>

---------------------------------------------------------------------------
(* C2                                                                      *)

\* C2: when the body the remote renderer returned lacks a marker or has
\* the markers out of order, _get_context returns None and the to-string
\* functions return the body exactly as received without calling the
\* template renderer, also when template_name is non-empty.
C2_UnmatchedReturnsFetched ==
    \A v \in DOMAIN pc :
        (remote.kind = "ok" /\ ~MarkersInOrder(remote.body)) =>
            /\ Extracted(v) => ~final_context[v].some
            /\ ~RenderCalled(v)
            /\ pc[v] \in {"returned", "responded"} =>
                   result[v] = ReturnedHtml(remote.body)
            /\ pc[v] \notin {"raised", "failed"}

\* a template was asked for, the body had three of the markers, and the
\* call returned
C2_Witness ==
    \E v \in DOMAIN pc :
        /\ pc[v] = "returned"
        /\ template_name # ""
        /\ Extracted(v)
        /\ ~MarkersInOrder(remote.body)
        /\ Occurrences(remote.body, Marker1) # {}
        /\ Occurrences(remote.body, Marker2) # {}
        /\ Occurrences(remote.body, Marker4) # {}
        /\ result[v].html # <<>>

---------------------------------------------------------------------------
(* C5                                                                      *)

\* C5 as stated: the extractor looks for five markers and cuts the page
\* exactly when all five are found in order.
C5_FiveMarkers ==
    \A v \in DOMAIN pc :
        Extracted(v) =>
            (final_context[v].some <=> Len(MarkerPositions(html[v])) = 5)

\* C5 amended: the extractor looks for four markers and cuts the page into
\* five ordered segments exactly when all four occur in order (each at or
\* after the one before); the cuts fall at the end of the first marker and
\* at the start of the second, third and fourth. A page lacking a marker,
\* or having them only in another order, yields None.
C5_FourMarkersFiveSegments ==
    \A v \in DOMAIN pc :
        Extracted(v) =>
            /\ final_context[v].some <=> MarkersInOrder(html[v])
            /\ final_context[v].some =>
                 LET secs == final_context[v].d[DJANGO_NEXTJS_KEY].sections
                 IN  /\ Len(MarkerPositions(html[v])) = 4
                     /\ Cardinality(DOMAIN secs) = 5
                     /\ EndsWith(secs["section1"], Marker1)
                     /\ StartsWith(secs["section3"], Marker2)
                     /\ StartsWith(secs["section4"], Marker3)
                     /\ StartsWith(secs["section5"], Marker4)
                     /\ Occurrences(secs["section1"], Marker1)
                            = {Len(secs["section1"]) - Len(Marker1)}

\* a page that has a marker twice has been cut
C5_Witness ==
    \E v \in DOMAIN pc :
        /\ Extracted(v)
        /\ final_context[v].some
        /\ Cardinality(Occurrences(html[v], Marker3)) = 2

---------------------------------------------------------------------------
(* C3                                                                      *)

\* C3: the cookies sent to the remote renderer contain a cookie named
\* CSRF_COOKIE_NAME whether or not the inbound request had one, every
\* inbound cookie of another name is sent with its value unchanged, and no
\* other cookie is sent.
C3_CsrfCookieAlwaysSent ==
    \A v \in DOMAIN pc :
        \A i \in 1..Len(sent[v]) :
            LET out == sent[v][i].cookies
            IN  /\ CSRF_COOKIE_NAME \in DOMAIN out
                /\ \A k \in (DOMAIN request.COOKIES) \ {CSRF_COOKIE_NAME} :
                       k \in DOMAIN out /\ out[k] = request.COOKIES[k]
                /\ DOMAIN out \subseteq (DOMAIN request.COOKIES) \cup {CSRF_COOKIE_NAME}

\* a request with cookies but no CSRF cookie has been forwarded
C3_Witness ==
    \E v \in DOMAIN pc :
        /\ sent[v] # <<>>
        /\ CSRF_COOKIE_NAME \notin DOMAIN request.COOKIES
        /\ Cardinality(DOMAIN request.COOKIES) = 2

---------------------------------------------------------------------------
(* C9                                                                      *)

\* C9: the headers sent have exactly the keys x-real-ip and user-agent;
\* x-real-ip is the inbound X-Real-Ip when present and non-empty, else
\* REMOTE_ADDR, else the empty string; user-agent is the inbound User-Agent
\* or the empty string; no other inbound header is sent.
C9_TwoHeaders ==
    \A v \in DOMAIN pc :
        \A i \in 1..Len(sent[v]) :
            LET out == sent[v][i].headers
                hs == request.headers
            IN  /\ DOMAIN out = {"x-real-ip", "user-agent"}
                /\ out["x-real-ip"] =
                       IF "X-Real-Ip" \in DOMAIN hs /\ hs["X-Real-Ip"] # ""
                       THEN hs["X-Real-Ip"]
                       ELSE IF "REMOTE_ADDR" \in DOMAIN request.META
                            THEN request.META["REMOTE_ADDR"]
                            ELSE ""
                /\ out["user-agent"] =
                       IF "User-Agent" \in DOMAIN hs THEN hs["User-Agent"] ELSE ""

\* a request with an empty X-Real-Ip, a REMOTE_ADDR and a third header has
\* been forwarded
C9_Witness ==
    \E v \in DOMAIN pc :
        /\ sent[v] # <<>>
        /\ "X-Real-Ip" \in DOMAIN request.headers
        /\ request.headers["X-Real-Ip"] = ""
        /\ "REMOTE_ADDR" \in DOMAIN request.META
        /\ request.META["REMOTE_ADDR"] # ""
        /\ "Accept-Language" \in DOMAIN request.headers
        /\ sent[v][1].headers["x-real-ip"] = request.META["REMOTE_ADDR"]

---------------------------------------------------------------------------
(* C4                                                                      *)

\* C4: in both variants the query parameters sent hold, for each key,
\* every value the inbound query string had for it, with the same
\* multiplicity and in the same order, and no key the inbound request did
\* not have.
C4_AllValuesForwarded ==
    \A v \in DOMAIN pc :
        \A i \in 1..Len(sent[v]) :
            LET out == sent[v][i].params
            IN  /\ NamesIn(out) = NamesIn(request.GET)
                /\ \A k \in NamesIn(request.GET) :
                       ValuesFor(out, k) = ValuesFor(request.GET, k)
                /\ Len(out) = Len(request.GET)

\* a query string with a key given two different values around another key
\* has been forwarded
C4_Witness ==
    \E v \in DOMAIN pc :
        /\ sent[v] # <<>>
        /\ Len(request.GET) = 3
        /\ request.GET[1][1] = request.GET[3][1]
        /\ request.GET[1][2] # request.GET[3][2]
        /\ request.GET[2][1] # request.GET[1][1]

---------------------------------------------------------------------------
(* C6                                                                      *)

Finished == {"returned", "raised", "responded", "failed"}
Wrapped == {"responded", "failed"}

\* C6: called with the same request, arguments, remote renderer and
\* template engine, the sync and the async variant send the same outbound
\* request (URL, query parameters, cookies, headers), their to-string
\* functions end with the same text, and their page functions end with an
\* HttpResponse of the same content, content_type and status.
C6_VariantsAgree ==
    (DOMAIN pc = Variants) =>
        /\ (sent["sync"] # <<>> /\ sent["async"] # <<>>) => sent["sync"] = sent["async"]
        /\ (pc["sync"] \in Finished /\ pc["async"] \in Finished) =>
               /\ result["sync"] = result["async"]
               /\ caller_context["sync"] = caller_context["async"]
        /\ (pc["sync"] \in Wrapped /\ pc["async"] \in Wrapped) =>
               response["sync"] = response["async"]

\* both variants answered a request with a repeated query key from a
\* rendered template
C6_Witness ==
    /\ DOMAIN pc = Variants
    /\ \A v \in Variants : pc[v] = "responded" /\ result[v].kind = "rendered"
    /\ Len(request.GET) > Cardinality(NamesIn(request.GET))
    /\ content_type # "None"

---------------------------------------------------------------------------
(* C7                                                                      *)

\* C7: a render operation issues exactly one GET, before any marker
\* extraction or template rendering: none is skipped, none is repeated.
C7_ExactlyOneGet ==
    \A v \in DOMAIN pc :
        /\ pc[v] = "start" => (log[v] = <<>> /\ sent[v] = <<>>)
        /\ pc[v] # "start" =>
               /\ Len(sent[v]) = 1
               /\ sent[v][1].method = "GET"
               /\ log[v][1] = "GET"
               /\ \A i \in 2..Len(log[v]) : log[v][i] # "GET"

\* a call that rendered a template did so after its one GET
C7_Witness ==
    \E v \in DOMAIN pc :
        /\ pc[v] = "responded"
        /\ log[v] = <<"GET", "extract", "render">>

---------------------------------------------------------------------------
(* C8                                                                      *)

\* C8: an error of the HTTP client ends the operation with that error,
\* with no marker extraction and no template rendering; an error of the
\* template engine ends the operation with that error; neither is turned
\* into a text or an HttpResponse.
C8_ErrorsSurface ==
    \A v \in DOMAIN pc :
        /\ (remote.kind = "error" /\ pc[v] # "start") =>
               /\ pc[v] \in {"raised", "failed"}
               /\ result[v] = Raised(remote.error)
               /\ log[v] = <<"GET">>
               /\ pc[v] = "failed" => response[v] = ResponseRaised(remote.error)
               /\ pc[v] = "raised" => response[v] = NoResponse
        /\ (engine.kind = "error" /\ RenderCalled(v)) =>
               /\ pc[v] \in {"raised", "failed"}
               /\ result[v] = Raised(engine.error)
               /\ pc[v] = "failed" => response[v] = ResponseRaised(engine.error)
               /\ pc[v] = "raised" => response[v] = NoResponse

\* a page function has ended with the template engine's error
C8_Witness ==
    \E v \in DOMAIN pc :
        /\ engine.kind = "error"
        /\ pc[v] = "failed"
        /\ RenderCalled(v)
        /\ response[v].error = engine.error

---------------------------------------------------------------------------
(* C10                                                                     *)

\* C10: when the markers are found, the context handed to the template has
\* every caller key other than django_nextjs__ with its value, plus
\* django_nextjs__ holding the five segments (over any caller value); a
\* non-empty caller dict gains the key in place, an empty or absent one is
\* left as it was; and when the markers are not found the caller's context
\* is not modified.
C10_ContextFrame ==
    \A v \in DOMAIN pc :
        /\ ~final_context[v].some => caller_context[v] = context
        /\ final_context[v].some =>
               LET given == context.d
                   handed == final_context[v].d
               IN  /\ DOMAIN handed = (DOMAIN given) \cup {DJANGO_NEXTJS_KEY}
                   /\ \A k \in (DOMAIN given) \ {DJANGO_NEXTJS_KEY} :
                          handed[k] = given[k]
                   /\ handed[DJANGO_NEXTJS_KEY].kind = "sections"
                   /\ DOMAIN handed[DJANGO_NEXTJS_KEY].sections = SectionKeys
                   /\ Truthy(context) => caller_context[v] = Some(handed)
                   /\ ~Truthy(context) => caller_context[v] = context
        /\ RenderCalled(v) /\ result[v].kind = "rendered" =>
               result[v].rendered.context = final_context[v].d

\* a caller's dict holding a title and its own django_nextjs__ went to the
\* template
C10_Witness ==
    \E v \in DOMAIN pc :
        /\ final_context[v].some
        /\ result[v].kind = "rendered"
        /\ DOMAIN context.d = {"title", DJANGO_NEXTJS_KEY}
        /\ caller_context[v] # context

============================================================================
